---- MODULE Spec2Model ----
(***************************************************************************)
(* Model of the POST /predict handler of src/src/index.ts: the lazily      *)
(* loaded module-level model handle (cancerModel), loadModel, the tensor   *)
(* allocations of the preprocessing and inference steps, the Firestore     *)
(* write and the response.  Every await of the handler is a point where    *)
(* another request's step may run, so each action below is the code that   *)
(* runs between two awaits.                                                *)
(***************************************************************************)
EXTENDS Integers, FiniteSets, Sequences, TLC

\* Number of POST /predict requests the model follows.
MaxReqs == 2

Reqs == 1 .. MaxReqs

\* The value of the uninitialised module variable (let cancerModel).
NoModel == 0

\* What await loadModel() holds when loadModel threw.
LoadError == -1

\* parseFloat(predictionValue) > 50, in hundredths of a percent.
Threshold == 5000

\* Model outputs (prediction.dataSync()[0] * 100) in thousandths of a percent:
\* the two values around the threshold that toFixed(2) rounds to 50.00 and 50.01.
RawOutputs == {50004, 50005}

MsgNoImage == "No image uploaded"
MsgFail == "Terjadi kesalahan dalam melakukan prediksi"
MsgSuccess == "Model is predicted successfully"
SuggestCancer == "Segera periksa ke dokter!"
SuggestNone == "Penyakit kanker tidak terdeteksi."

\* The tensors one invocation creates, named after the expressions creating them.
TfImage == "tfImage"
ResizedImage == "resizedImage"
DivResult == "resizedImage.div(255.0)"
NormalizedImage == "normalizedImage"
Prediction == "prediction"

NoDoc == [id |-> 0, result |-> "", suggestion |-> "", createdAt |-> 0]
NoResponse == [code |-> 0, status |-> "none", message |-> "", data |-> NoDoc]

VARIABLES
    cancerModel,     \* the module-level cache slot: NoModel or a handle
    artifactExists,  \* whether model.json is present in the bucket
    loaded,          \* handles whose tf.loadGraphModel completed
    pc,              \* where each request's handler is suspended
    loadResult,      \* per request: what its loadModel call holds or returned
    used,            \* per request: the handle predict was called on
    live,            \* per request: tensors created and not yet disposed
    score,           \* per request: predictionValue in hundredths, -1 if none
    doc,             \* per request: {id, result, suggestion, createdAt}
    writes,          \* per request: number of doc(id).set() calls
    response,        \* per request: the response sent
    sent,            \* per request: number of responses sent
    failedAt,        \* per request: the stage that threw
    cohort,          \* requests that reached line 68 before any load completed
    records          \* documents of the predictions collection

vars == <<cancerModel, artifactExists, loaded, pc, loadResult, used,
          live, score, doc, writes, response, sent, failedAt, cohort, records>>

modelVars == <<cancerModel, loaded, loadResult, cohort>>
resultVars == <<score, doc, writes, records>>

----------------------------------------------------------------------------
\* Pure parts of the handler.

\* (x).toFixed(2) followed by parseFloat: round to hundredths, half up.
ToFixed2(raw) == (raw + 5) \div 10

\* result = parseFloat(predictionValue) > 50 ? "Cancer" : "Non-cancer"
InterpretGeq(s) == IF s >= Threshold THEN "Cancer" ELSE "Non-cancer"
Interpret(s) == IF s > Threshold THEN "Cancer" ELSE "Non-cancer"

\* suggestion = result === "Cancer" ? referral : no-detection
Suggest(res) == IF res = "Cancer" THEN SuggestCancer ELSE SuggestNone

\* tf.loadGraphModel builds a new GraphModel object on every call; each request
\* calls it at most once, so the object is identified by the calling request.
NewGraphModel(r) == r

\* uuidv4() yields a fresh identifier on every call; each request calls it at
\* most once, so the identifier is named after the calling request.
Uuidv4(r) == r

\* new Date().toISOString() is the instant at which the request runs line 91;
\* each request reads the clock at most once, so the instant is named after
\* the reading request.
NewDate(r) == r

FailResponse(msg) == [code |-> 400, status |-> "fail", message |-> msg, data |-> NoDoc]
SuccessResponse(d) == [code |-> 200, status |-> "success", message |-> MsgSuccess, data |-> d]

\* Requests with a loadModel call that has started and not yet returned or thrown.
LoadsInFlight == {r \in Reqs : pc[r] \in {"awaitExists", "awaitLoadGraphModel"}}

\* Requests whose loadModel call has returned or thrown.
LoadsCompleted ==
    {r \in Reqs : loadResult[r] # NoModel /\ pc[r] # "awaitLoadGraphModel"}

----------------------------------------------------------------------------
Init ==
    /\ cancerModel = NoModel
    /\ artifactExists \in BOOLEAN
    /\ loaded = {}
    /\ pc = [r \in Reqs |-> "idle"]
    /\ loadResult = [r \in Reqs |-> NoModel]
    /\ used = [r \in Reqs |-> NoModel]
    /\ live = [r \in Reqs |-> {}]
    /\ score = [r \in Reqs |-> -1]
    /\ doc = [r \in Reqs |-> NoDoc]
    /\ writes = [r \in Reqs |-> 0]
    /\ response = [r \in Reqs |-> NoResponse]
    /\ sent = [r \in Reqs |-> 0]
    /\ failedAt = [r \in Reqs |-> "none"]
    /\ cohort = {}
    /\ records = {}

\* Catch with the thrown error's text sent as the message.
CatchErrorMessage(r, stage, tensors) ==
    /\ pc' = [pc EXCEPT ![r] = "done"]
    /\ live' = [live EXCEPT ![r] = tensors]
    /\ failedAt' = [failedAt EXCEPT ![r] = stage]
    /\ response' = [response EXCEPT ![r] = FailResponse(stage)]
    /\ sent' = [sent EXCEPT ![r] = @ + 1]

\* The catch block of the handler: res.status(400).json(fail); nothing is disposed.
Catch(r, stage, tensors) ==
    /\ pc' = [pc EXCEPT ![r] = "done"]
    /\ live' = [live EXCEPT ![r] = tensors]
    /\ failedAt' = [failedAt EXCEPT ![r] = stage]
    /\ response' = [response EXCEPT ![r] = FailResponse(MsgFail)]
    /\ sent' = [sent EXCEPT ![r] = @ + 1]

\* Lines 73-81 with the model m in the slot: decodeImage, resizeBilinear, div,
\* expandDims and the call of predict, each of which may throw; the tensors
\* created before the throw stay allocated.
PreprocessAndPredict(r, m, outcome) ==
    /\ outcome \in {"decode", "resize", "div", "expandDims", "predict", "ok"}
    /\ CASE outcome = "decode" -> Catch(r, "decode", {}) /\ used' = used
         [] outcome = "resize" -> Catch(r, "resize", {TfImage}) /\ used' = used
         [] outcome = "div" -> Catch(r, "div", {TfImage, ResizedImage}) /\ used' = used
         [] outcome = "expandDims" ->
                Catch(r, "expandDims", {TfImage, ResizedImage, DivResult}) /\ used' = used
         [] outcome = "predict" ->
                /\ Catch(r, "predict", {TfImage, ResizedImage, DivResult, NormalizedImage})
                /\ used' = [used EXCEPT ![r] = m]
         [] outcome = "ok" ->
                /\ pc' = [pc EXCEPT ![r] = "awaitPredict"]
                /\ live' = [live EXCEPT ![r] =
                              {TfImage, ResizedImage, DivResult, NormalizedImage, Prediction}]
                /\ used' = [used EXCEPT ![r] = m]
                /\ UNCHANGED <<failedAt, response, sent>>

\* RequestNoFile without the return of line 61: the 400 is sent and the handler
\* goes on to line 68.
RequestNoFileNoReturn(r) ==
    /\ pc[r] = "idle"
    /\ pc' = [pc EXCEPT ![r] = IF cancerModel = NoModel THEN "awaitExists" ELSE "done"]
    /\ response' = [response EXCEPT ![r] = FailResponse(MsgNoImage)]
    /\ sent' = [sent EXCEPT ![r] = @ + 1]
    /\ UNCHANGED <<modelVars, resultVars, artifactExists, used, live, failedAt>>

\* A request without a file: lines 60-65.
RequestNoFile(r) ==
    /\ pc[r] = "idle"
    /\ pc' = [pc EXCEPT ![r] = "done"]
    /\ response' = [response EXCEPT ![r] = FailResponse(MsgNoImage)]
    /\ sent' = [sent EXCEPT ![r] = @ + 1]
    /\ UNCHANGED <<modelVars, resultVars, artifactExists, used, live, failedAt>>

\* RequestLoad with uuidv4() and new Date() called at the top of the handler.
RequestLoadEarlyId(r) ==
    /\ pc[r] = "idle"
    /\ cancerModel = NoModel
    /\ pc' = [pc EXCEPT ![r] = "awaitExists"]
    /\ cohort' = IF LoadsCompleted = {} THEN cohort \cup {r} ELSE cohort
    /\ doc' = [doc EXCEPT ![r] = [id |-> Uuidv4(r), result |-> "", suggestion |-> "",
                                  createdAt |-> NewDate(r)]]
    /\ UNCHANGED <<cancerModel, loaded, loadResult, score, writes, records, artifactExists,
                   used, live, response, sent, failedAt>>

\* A request with a file that finds the slot empty: lines 68-69 and 37-41,
\* up to await modelFile.exists().
RequestLoad(r) ==
    /\ pc[r] = "idle"
    /\ cancerModel = NoModel
    /\ pc' = [pc EXCEPT ![r] = "awaitExists"]
    /\ cohort' = IF LoadsCompleted = {} THEN cohort \cup {r} ELSE cohort
    /\ UNCHANGED <<cancerModel, loaded, loadResult, resultVars, artifactExists, used, live, response, sent,
                   failedAt>>

\* RequestCached without the test of line 68: the model is loaded again.
RequestCachedReload(r) ==
    /\ pc[r] = "idle"
    /\ cancerModel # NoModel
    /\ pc' = [pc EXCEPT ![r] = "awaitExists"]
    /\ UNCHANGED <<modelVars, resultVars, artifactExists, used, live, response, sent,
                   failedAt>>

\* A request with a file that finds the slot populated: lines 68, 73-81.
RequestCached(r) ==
    /\ pc[r] = "idle"
    /\ cancerModel # NoModel
    /\ \E outcome \in {"decode", "resize", "div", "expandDims", "predict", "ok"} :
           PreprocessAndPredict(r, cancerModel, outcome)
    /\ UNCHANGED <<modelVars, resultVars, artifactExists>>

\* ExistsTrue with the slot written as soon as the load starts.
ExistsTrueEarlyCache(r) ==
    /\ pc[r] = "awaitExists"
    /\ artifactExists
    /\ pc' = [pc EXCEPT ![r] = "awaitLoadGraphModel"]
    /\ loadResult' = [loadResult EXCEPT ![r] = NewGraphModel(r)]
    /\ cancerModel' = NewGraphModel(r)
    /\ UNCHANGED <<loaded, cohort, resultVars, artifactExists, used, live,
                   response, sent, failedAt>>

\* await modelFile.exists() yields true: lines 41-48, up to the await of
\* tf.loadGraphModel, which starts building a new GraphModel object.
ExistsTrue(r) ==
    /\ pc[r] = "awaitExists"
    /\ artifactExists
    /\ pc' = [pc EXCEPT ![r] = "awaitLoadGraphModel"]
    /\ loadResult' = [loadResult EXCEPT ![r] = NewGraphModel(r)]
    /\ UNCHANGED <<cancerModel, loaded, cohort, resultVars, artifactExists, used, live,
                   response, sent, failedAt>>

\* loadModel throws: its catch (lines 49-52) logs and rethrows, and the caller
\* resumes in a later microtask.
LoadModelThrows(r, stage) ==
    /\ pc' = [pc EXCEPT ![r] = "awaitLoadModel"]
    /\ loadResult' = [loadResult EXCEPT ![r] = LoadError]
    /\ failedAt' = [failedAt EXCEPT ![r] = stage]
    /\ UNCHANGED <<cancerModel, loaded, cohort, resultVars, artifactExists, used, live,
                   response, sent>>

\* await modelFile.exists() yields false: lines 43-45.
ExistsFalse(r) ==
    /\ pc[r] = "awaitExists"
    /\ ~artifactExists
    /\ LoadModelThrows(r, "notFound")

\* await modelFile.exists() rejects (the bucket cannot be reached): line 41.
ExistsRejects(r) ==
    /\ pc[r] = "awaitExists"
    /\ LoadModelThrows(r, "exists")

\* tf.loadGraphModel resolves: the handle is fully loaded and parsed, and
\* loadModel returns it (line 48).
LoadGraphModelResolves(r) ==
    /\ pc[r] = "awaitLoadGraphModel"
    /\ pc' = [pc EXCEPT ![r] = "awaitLoadModel"]
    /\ loaded' = loaded \cup {loadResult[r]}
    /\ UNCHANGED <<cancerModel, loadResult, cohort, resultVars, artifactExists, used, live,
                   response, sent, failedAt>>

\* tf.loadGraphModel rejects (fetch or parse error): lines 49-52.
LoadGraphModelRejects(r) ==
    /\ pc[r] = "awaitLoadGraphModel"
    /\ LoadModelThrows(r, "loadGraphModel")

\* ResumeLoadModelOk with predict called on the slot's value as read before the
\* await of line 69.
ResumeLoadModelOkStale(r) ==
    /\ pc[r] = "awaitLoadModel"
    /\ loadResult[r] # LoadError
    /\ cancerModel' = loadResult[r]
    /\ \E outcome \in {"decode", "resize", "div", "expandDims", "predict", "ok"} :
           PreprocessAndPredict(r, cancerModel, outcome)
    /\ UNCHANGED <<loaded, loadResult, cohort, resultVars, artifactExists>>

\* The handler resumes from await loadModel() with a handle: the assignment of
\* line 69, then lines 73-81 without suspending in between.
ResumeLoadModelOk(r) ==
    /\ pc[r] = "awaitLoadModel"
    /\ loadResult[r] # LoadError
    /\ cancerModel' = loadResult[r]
    /\ \E outcome \in {"decode", "resize", "div", "expandDims", "predict", "ok"} :
           PreprocessAndPredict(r, loadResult[r], outcome)
    /\ UNCHANGED <<loaded, loadResult, cohort, resultVars, artifactExists>>

\* ResumeLoadModelThrows with the failure stored in the slot.
ResumeLoadModelThrowsPoison(r) ==
    /\ pc[r] = "awaitLoadModel"
    /\ loadResult[r] = LoadError
    /\ Catch(r, failedAt[r], {})
    /\ cancerModel' = LoadError
    /\ UNCHANGED <<loaded, loadResult, cohort, resultVars, artifactExists, used>>

\* ResumeLoadModelThrows with the load retried instead of the failure answered.
ResumeLoadModelThrowsRetry(r) ==
    /\ pc[r] = "awaitLoadModel"
    /\ loadResult[r] = LoadError
    /\ pc' = [pc EXCEPT ![r] = "awaitExists"]
    /\ loadResult' = [loadResult EXCEPT ![r] = NoModel]
    /\ UNCHANGED <<cancerModel, loaded, cohort, resultVars, artifactExists, used, live,
                   response, sent, failedAt>>

\* The handler resumes from await loadModel() with the rethrown error: line 69
\* throws before the assignment, lines 117-122 answer.
ResumeLoadModelThrows(r) ==
    /\ pc[r] = "awaitLoadModel"
    /\ loadResult[r] = LoadError
    /\ Catch(r, failedAt[r], {})
    /\ UNCHANGED <<modelVars, resultVars, artifactExists, used>>

\* The handler resumes from await predict: lines 82-94, up to the await of
\* predictionsCollection.doc(responseId).set(...).
ResumePredict(r) ==
    /\ pc[r] = "awaitPredict"
    /\ \E raw \in RawOutputs :
         LET s == ToFixed2(raw)
             result == Interpret(s)
         IN /\ score' = [score EXCEPT ![r] = s]
            /\ doc' = [doc EXCEPT ![r] = [id |-> Uuidv4(r), result |-> result,
                                          suggestion |-> Suggest(result),
                                          createdAt |-> NewDate(r)]]
    /\ writes' = [writes EXCEPT ![r] = @ + 1]
    /\ pc' = [pc EXCEPT ![r] = "awaitSet"]
    /\ UNCHANGED <<modelVars, records, artifactExists, used, live, response, sent,
                   failedAt>>

\* Firestore stores the document of the pending set() call (line 94); the
\* handler is still suspended.
SetCommits(r) ==
    /\ pc[r] = "awaitSet"
    /\ doc[r] \notin records
    /\ records' = records \cup {doc[r]}
    /\ UNCHANGED <<modelVars, score, doc, writes, artifactExists, pc, used, live, response,
                   sent, failedAt>>

\* set() resolves after the document was stored: lines 101-116.
SetResolves(r) ==
    /\ pc[r] = "awaitSet"
    /\ doc[r] \in records
    /\ records' = records
    /\ live' = [live EXCEPT ![r] = @ \ {TfImage, ResizedImage, NormalizedImage, Prediction}]
    /\ response' = [response EXCEPT ![r] = SuccessResponse(doc[r])]
    /\ sent' = [sent EXCEPT ![r] = @ + 1]
    /\ pc' = [pc EXCEPT ![r] = "done"]
    /\ UNCHANGED <<modelVars, score, doc, writes, artifactExists, used, failedAt>>

\* SetRejects with the write error swallowed and the success response sent.
SetRejectsSwallow(r) ==
    /\ pc[r] = "awaitSet"
    /\ doc[r] \notin records
    /\ pc' = [pc EXCEPT ![r] = "done"]
    /\ response' = [response EXCEPT ![r] = SuccessResponse(doc[r])]
    /\ sent' = [sent EXCEPT ![r] = @ + 1]
    /\ UNCHANGED <<modelVars, resultVars, artifactExists, used, live, failedAt>>

\* set() rejects, nothing was stored: lines 117-122.
SetRejects(r) ==
    /\ pc[r] = "awaitSet"
    /\ doc[r] \notin records
    /\ Catch(r, "set", live[r])
    /\ UNCHANGED <<modelVars, resultVars, artifactExists, used>>

\* The environment: model.json is uploaded to or removed from the bucket.
ArtifactAppears ==
    /\ ~artifactExists
    /\ artifactExists' = TRUE
    /\ UNCHANGED <<modelVars, resultVars, pc, used, live, response, sent, failedAt>>

ArtifactDisappears ==
    /\ artifactExists
    /\ artifactExists' = FALSE
    /\ UNCHANGED <<modelVars, resultVars, pc, used, live, response, sent, failedAt>>

Next ==
    \/ \E r \in Reqs : RequestNoFile(r)
    \/ \E r \in Reqs : RequestLoad(r)
    \/ \E r \in Reqs : RequestCached(r)
    \/ \E r \in Reqs : ExistsTrue(r)
    \/ \E r \in Reqs : ExistsFalse(r)
    \/ \E r \in Reqs : ExistsRejects(r)
    \/ \E r \in Reqs : LoadGraphModelResolves(r)
    \/ \E r \in Reqs : LoadGraphModelRejects(r)
    \/ \E r \in Reqs : ResumeLoadModelOk(r)
    \/ \E r \in Reqs : ResumeLoadModelThrows(r)
    \/ \E r \in Reqs : ResumePredict(r)
    \/ \E r \in Reqs : SetCommits(r)
    \/ \E r \in Reqs : SetResolves(r)
    \/ \E r \in Reqs : SetRejects(r)
    \/ ArtifactAppears
    \/ ArtifactDisappears

Spec == Init /\ [][Next]_vars

\* The settlement of the pending await of request r and the continuation of its
\* handler: every step of r but its arrival.
Resume(r) ==
    \/ ExistsTrue(r) \/ ExistsFalse(r) \/ ExistsRejects(r)
    \/ LoadGraphModelResolves(r) \/ LoadGraphModelRejects(r)
    \/ ResumeLoadModelOk(r) \/ ResumeLoadModelThrows(r)
    \/ ResumePredict(r)
    \/ SetCommits(r) \/ SetResolves(r) \/ SetRejects(r)

\* Every external call (exists, tf.loadGraphModel, predict, set) eventually
\* resolves or rejects and the event loop runs the continuation of a settled
\* await: as long as some handler is suspended, one of them is resumed.
\* Requests are not obliged to arrive.
FairSpec == Spec /\ WF_vars(\E r \in Reqs : Resume(r))

TypeOK ==
    /\ cancerModel \in 0 .. MaxReqs
    /\ cohort \subseteq Reqs
    /\ pc \in [Reqs -> {"idle", "awaitExists", "awaitLoadGraphModel", "awaitLoadModel",
                        "awaitPredict", "awaitSet", "done"}]
    /\ \A r \in Reqs : sent[r] \in 0 .. 1

----------------------------------------------------------------------------
\* Stages of the preprocessor (lines 74-76).
PreprocessStages == {"decode", "resize", "div", "expandDims"}
\* Stages of loadModel (lines 41-48).
LoadStages == {"notFound", "exists", "loadGraphModel"}

Failed(r) == response[r].status = "fail"
Succeeded(r) == response[r].status = "success"

\* The handler of r has resumed from await loadModel().
Acquired(r) == loadResult[r] # NoModel /\ pc[r] \in {"awaitPredict", "awaitSet", "done"}

\* C1: at most one loadModel call is in flight (started and neither returned
\* nor thrown) at any time.
C1_AtMostOneLoadInFlight == Cardinality(LoadsInFlight) <= 1

\* C2: the requests that reached the model-acquisition step before any load
\* completed all obtain the same handle, and run inference on it, or all fail
\* with the load failure; no two obtain different handles and none obtains a
\* handle while another fails.
C2_SameHandleOrSharedFailure ==
    \A r1, r2 \in cohort :
        Acquired(r1) /\ Acquired(r2) =>
            /\ loadResult[r1] = loadResult[r2]
            /\ (used[r1] # NoModel /\ used[r2] # NoModel => used[r1] = used[r2])

\* C3: once the slot holds a handle it holds that handle in every later state.
C3_SlotNeverReplaced ==
    [][cancerModel # NoModel => cancerModel' = cancerModel]_vars

\* C4: the slot is empty or holds a handle whose load completed, and predict is
\* only ever called on a handle whose load completed.
C4_OnlyLoadedHandles ==
    /\ cancerModel = NoModel \/ cancerModel \in loaded
    /\ \A r \in Reqs : used[r] # NoModel => used[r] \in loaded

\* C4's case: a request has called predict on the cached handle while another
\* request's tf.loadGraphModel is still building its handle.
C4_Witness ==
    \E r1, r2 \in Reqs :
        /\ used[r1] # NoModel
        /\ cancerModel = used[r1]
        /\ pc[r2] = "awaitLoadGraphModel"
        /\ loadResult[r2] \notin loaded

\* C5: a failing load never writes the slot (the slot stays empty as long as
\* no load has succeeded) and its request answers with the failure; a request
\* with a file that finds the slot empty starts a new load, and a load that
\* returns a handle puts that loaded handle in the slot.
C5_FailureNotCached ==
    [][\A r \in Reqs :
        /\ loadResult'[r] = LoadError /\ loadResult[r] # LoadError =>
               cancerModel' = cancerModel
        /\ pc[r] = "awaitLoadModel" /\ loadResult[r] = LoadError /\ pc'[r] # pc[r] =>
               /\ cancerModel' = cancerModel
               /\ pc'[r] = "done"
               /\ response'[r] = FailResponse(MsgFail)
        /\ cancerModel' # LoadError
        /\ (\A q \in Reqs : loadResult'[q] \notin loaded') => cancerModel' = NoModel
        /\ pc[r] = "idle" /\ pc'[r] # "idle" /\ cancerModel = NoModel
                /\ response'[r] # FailResponse(MsgNoImage) =>
               pc'[r] = "awaitExists"
        /\ pc[r] = "awaitLoadModel" /\ loadResult[r] # LoadError /\ pc'[r] # pc[r] =>
               cancerModel' = loadResult[r] /\ cancerModel' \in loaded
      ]_vars

\* C5's case: a request's load failed and left the slot empty, and a request
\* that arrived after that failure loaded the model itself and succeeded.
C5_Witness ==
    \E r1, r2 \in Reqs :
        /\ Failed(r1) /\ failedAt[r1] \in LoadStages
        /\ r2 \notin cohort
        /\ loadResult[r2] \in loaded
        /\ cancerModel = loadResult[r2]
        /\ Succeeded(r2)

\* C6: when an invocation fails after it has allocated tensors, every tensor it
\* allocated has been released when the failure response is sent.
C6_ReleasedOnFailure ==
    \A r \in Reqs : Failed(r) => live[r] = {}

\* C7: after a successful invocation every tensor it created (decoded, resized,
\* divided, batch-expanded, model output) has been released.
C7_ReleasedOnSuccess ==
    \A r \in Reqs : Succeeded(r) => live[r] = {}

\* C8: an invocation that fails in the preprocessing stage ends with no live
\* tensor and writes no record.
C8_PreprocessFailureClean ==
    \A r \in Reqs :
        pc[r] = "done" /\ failedAt[r] \in PreprocessStages =>
            /\ live[r] = {}
            /\ writes[r] = 0
            /\ \A d \in records : d.id # Uuidv4(r)

\* C9: each invocation attempts the write at most once; a success response
\* with id X is sent exactly when the record with id X and the same result,
\* suggestion and createdAt was written; an invocation that answers with a
\* failure wrote no record; a write failure yields a failure response.
C9_RecordResponseConsistent ==
    \A r \in Reqs :
        /\ writes[r] <= 1
        /\ Succeeded(r) =>
               /\ response[r].code = 200
               /\ response[r].data.id = Uuidv4(r)
               /\ response[r].data \in records
               /\ writes[r] = 1
        /\ \A d \in records :
               d.id = Uuidv4(r) =>
                   /\ d = doc[r]
                   /\ pc[r] = "done" => Succeeded(r) /\ response[r].data = d
        /\ Failed(r) => \A d \in records : d.id # Uuidv4(r)
        /\ failedAt[r] = "set" /\ pc[r] = "done" => Failed(r) /\ response[r].code = 400

\* C9's case: one invocation's write succeeded and it answered 200, another
\* invocation's write failed and it answered 400.
C9_Witness ==
    \E r1, r2 \in Reqs :
        /\ Succeeded(r1) /\ response[r1].data \in records
        /\ failedAt[r2] = "set" /\ Failed(r2) /\ writes[r2] = 1

\* C10: the label is Cancer exactly when the score exceeds 50.00, Non-cancer
\* otherwise (so at 50.00), and the suggestion is the referral string exactly
\* when the label is Cancer, the no-detection string otherwise.
C10_ThresholdRule ==
    \A r \in Reqs :
        score[r] # -1 =>
            /\ doc[r].result = "Cancer" <=> score[r] > 5000
            /\ doc[r].result = "Non-cancer" <=> score[r] <= 5000
            /\ doc[r].suggestion = SuggestCancer <=> doc[r].result = "Cancer"
            /\ doc[r].suggestion = SuggestNone <=> doc[r].result # "Cancer"

\* C10's case: a score of exactly 50.00 labelled Non-cancer, and a score just
\* above it labelled Cancer.
C10_Witness ==
    \E r1, r2 \in Reqs :
        /\ score[r1] = 5000 /\ doc[r1].result = "Non-cancer"
        /\ doc[r1].suggestion = SuggestNone
        /\ score[r2] = 5001 /\ doc[r2].result = "Cancer"
        /\ doc[r2].suggestion = SuggestCancer

\* The stages whose error can reach the catch block.
FailStages == LoadStages \cup PreprocessStages \cup {"predict", "set"}

\* C11: whichever stage fails first (model load, decode/preprocess, inference,
\* persistence), the invocation sends the same failure response (400, "fail",
\* the fixed message, no data and no detail of the error) and no success
\* response.
C11_UniformFailure ==
    \A r \in Reqs :
        pc[r] = "done" /\ failedAt[r] # "none" =>
            /\ failedAt[r] \in FailStages
            /\ response[r] = [code |-> 400, status |-> "fail",
                              message |-> "Terjadi kesalahan dalam melakukan prediksi",
                              data |-> NoDoc]
            /\ sent[r] = 1
            /\ ~Succeeded(r)

\* C11's case: two invocations failed at different kinds of stage (a load and
\* a later stage) and carry the same response.
C11_Witness ==
    \E r1, r2 \in Reqs :
        /\ pc[r1] = "done" /\ failedAt[r1] \in LoadStages
        /\ pc[r2] = "done" /\ failedAt[r2] \in PreprocessStages \cup {"predict", "set"}
        /\ response[r1] = response[r2]

\* The suspension points of the handler in program order, and the stages of
\* the pipeline each one lies behind: at "awaitPredict" the model is ready,
\* the image preprocessed and predict called; at "awaitSet" the output is
\* read, interpreted and the record built.
Rank(p) ==
    CASE p = "idle" -> 0
      [] p = "awaitExists" -> 1
      [] p = "awaitLoadGraphModel" -> 2
      [] p = "awaitLoadModel" -> 3
      [] p = "awaitPredict" -> 4
      [] p = "awaitSet" -> 5
      [] p = "done" -> 6

\* C12: an invocation passes its stages only in the order model ready,
\* preprocessed, inferred, interpreted, record built, done, a failure ending
\* it; the identifier and timestamp are generated only once the score has been
\* interpreted, so an invocation that fails at model load, preprocessing or
\* inference has generated neither.
C12_StageOrder ==
    [][\A r \in Reqs :
        /\ pc'[r] # pc[r] => Rank(pc'[r]) > Rank(pc[r])
        /\ pc'[r] = "awaitPredict" /\ pc[r] # "awaitPredict" =>
               /\ cancerModel' \in loaded' /\ used'[r] = cancerModel'
               /\ NormalizedImage \in live'[r]
               /\ score'[r] = -1 /\ doc'[r] = NoDoc
        /\ pc'[r] = "awaitSet" /\ pc[r] # "awaitSet" =>
               /\ pc[r] = "awaitPredict"
               /\ score'[r] # -1 /\ doc'[r].result = Interpret(score'[r])
               /\ doc'[r].id # 0 /\ doc'[r].createdAt # 0
        /\ Succeeded(r)' /\ ~Succeeded(r) => pc[r] = "awaitSet"
        /\ doc'[r].id # 0 \/ doc'[r].createdAt # 0 =>
               score'[r] # -1 /\ doc'[r].result # ""
        /\ failedAt'[r] \in LoadStages \cup PreprocessStages \cup {"predict"} =>
               doc'[r] = NoDoc /\ writes'[r] = 0
      ]_vars

\* C12's case: one invocation went through every stage and built its record,
\* another failed at inference without an identifier or timestamp.
C12_Witness ==
    \E r1, r2 \in Reqs :
        /\ Succeeded(r1) /\ doc[r1].id # 0 /\ doc[r1].createdAt # 0
        /\ pc[r2] = "done" /\ failedAt[r2] = "predict" /\ doc[r2] = NoDoc

\* A request with a file enters the handler in this step.
Arrives(r) ==
    /\ pc[r] = "idle"
    /\ pc'[r] # "idle"
    /\ response'[r] # FailResponse(MsgNoImage)

\* C13: a request that reaches the model-acquisition step with the slot
\* populated makes no existence check and no load and goes on to preprocessing
\* and predict on the cached handle without suspending; hence once the slot is
\* populated no new loadModel call is started.
C13_CachedNoLoad ==
    [][\A r \in Reqs :
        /\ Arrives(r) /\ cancerModel # NoModel =>
               /\ pc'[r] \in {"awaitPredict", "done"}
               /\ loadResult'[r] = NoModel
               /\ cancerModel' = cancerModel
               /\ loaded' = loaded
               /\ pc'[r] = "done" => failedAt'[r] \in PreprocessStages \cup {"predict"}
               /\ pc'[r] = "awaitPredict" => used'[r] = cancerModel
        /\ cancerModel # NoModel => ~(pc[r] # "awaitExists" /\ pc'[r] = "awaitExists")
        /\ cancerModel # NoModel => cancerModel' # NoModel
      ]_vars

\* C13's case: a request arrived with the slot populated and called predict on
\* the cached handle without a load of its own.
C13_Witness ==
    \E r \in Reqs :
        /\ loadResult[r] = NoModel
        /\ used[r] # NoModel
        /\ used[r] = cancerModel
        /\ pc[r] = "awaitPredict"

\* C14: under fairness, with every external call eventually returning or
\* failing, every request that entered the handler eventually reaches its
\* terminal state having sent exactly one response, whatever the other
\* requests do: from some point on every request either never entered the
\* handler or is terminal with exactly one response sent.
C14_EveryRequestAnswered ==
    <>[](\A r \in Reqs :
            \/ pc[r] = "idle"
            \/ pc[r] = "done" /\ sent[r] = 1 /\ response[r] # NoResponse)

\* C14's case: every request is terminal with one response sent, one of them
\* a success and one a failure of its load.
C14_Witness ==
    /\ \A r \in Reqs : pc[r] = "done" /\ sent[r] = 1
    /\ \E r1, r2 \in Reqs :
           Succeeded(r1) /\ Failed(r2) /\ failedAt[r2] \in LoadStages

\* C15: a request that found the slot empty and whose own load succeeded calls
\* predict on the handle its own load returned: the step that writes the slot
\* is the step that calls predict, and the slot holds that handle at the call.
C15_PredictOnOwnHandle ==
    [][\A r \in Reqs :
        /\ used'[r] # used[r] /\ loadResult[r] # NoModel =>
               /\ pc[r] = "awaitLoadModel"
               /\ used'[r] = loadResult[r]
               /\ cancerModel' = loadResult[r]
        /\ loadResult'[r] \notin {NoModel, LoadError} /\ used'[r] # NoModel =>
               used'[r] = loadResult'[r]
      ]_vars

\* C15's case: two requests loaded the model concurrently, the slot now holds
\* the handle of one of them and the other has called predict on its own.
C15_Witness ==
    \E r1, r2 \in Reqs :
        /\ r1 # r2
        /\ used[r1] = loadResult[r1] /\ used[r1] # NoModel
        /\ used[r2] = loadResult[r2] /\ used[r2] # NoModel
        /\ cancerModel = used[r2]
        /\ cancerModel # used[r1]

\* C16: a request without a file is answered with the 400 "No image uploaded"
\* failure and changes nothing else: no load is started, the slot is not
\* written (and the answer does not depend on it), no tensor is allocated and
\* no record is written.
C16_NoFileFrame ==
    [][\A r \in Reqs :
        response'[r] = FailResponse(MsgNoImage) /\ response[r] # response'[r] =>
            /\ response'[r] = [code |-> 400, status |-> "fail",
                               message |-> "No image uploaded", data |-> NoDoc]
            /\ pc[r] = "idle" /\ pc'[r] = "done"
            /\ sent'[r] = 1
            /\ UNCHANGED <<cancerModel, artifactExists, loaded, loadResult, used, live,
                           score, doc, writes, failedAt, cohort, records>>
            /\ \A q \in Reqs \ {r} :
                   pc'[q] = pc[q] /\ response'[q] = response[q] /\ sent'[q] = sent[q]
      ]_vars

\* C16's case: a request without a file was answered while the slot was
\* populated and another request was suspended in the pipeline; it has no
\* load, no handle, no tensor and no record of its own.
C16_Witness ==
    \E r1, r2 \in Reqs :
        /\ response[r1] = FailResponse(MsgNoImage)
        /\ pc[r1] = "done"
        /\ loadResult[r1] = NoModel /\ used[r1] = NoModel
        /\ live[r1] = {} /\ writes[r1] = 0 /\ doc[r1] = NoDoc
        /\ cancerModel # NoModel
        /\ pc[r2] = "awaitSet"
====
